---- MODULE Spec2Model ----
(***************************************************************************)
(* PyRPS: reliable publish/subscribe over a Redis-like store               *)
(* (src/pyrps/pyrps.py).  Every store command the client issues (INCR,     *)
(* SETEX, SMEMBERS, RPUSH, LPOP/BLPOP, GET, SADD, SREM, DEL) is one atomic *)
(* step; the calls of concurrent callers interleave between the commands.  *)
(***************************************************************************)
EXTENDS Integers, Sequences, FiniteSets, Bags, TLC

\* ------------------------------------------------------------------ bounds
\* Publishes per run: PublishIncr is guarded by the counter staying <= MaxId.
MaxId == 2
\* Keys built per run when the key scheme is exercised on its own.
MaxBuilt == 2

\* ------------------------------------------------------------------ inputs
\* Callers: two that publish, two that hold a Subscription.
Publishers  == {"p1", "p2"}
Subscribers == {"h1", "h2"}
Threads     == Publishers \cup Subscribers
NAMESPACE == "shop"
\* Queue and consumer names may contain the separator of the key scheme.
Queues    == {"a", "a.b"}
Consumers == {"c", "b.c"}
\* The (queue, consumer_id) pairs callers subscribe with.
Pairs     == {<<"a", "c">>, <<"a", "b.c">>, <<"a.b", "c">>}
Messages  == {"x", "y"}
\* The body each publisher sends when the publishers race.
Payload   == [p1 |-> "x", p2 |-> "y"]
\* The (block, timeout) arguments of consume; timeout is read only when
\* block is true.
ConsumeArgs == {<<FALSE, 0>>, <<TRUE, 0>>, <<TRUE, 1>>}

\* Python values a call returns: None, a str, an int.
PyNone     == <<"None">>
PyStr(s)   == <<"str", s>>
PyInt(n)   == <<"int", n>>
\* The store's reply for an absent (or expired) key.
Nil        == "<nil>"
\* redis-py turns a nil reply into None and a bulk reply into a str.
Reply(v)   == IF v = Nil THEN PyNone ELSE PyStr(v)
\* The TypeError of subscripting None (pyrps.py line 191).
TypeError  == "TypeError"
NoExc      == "<no exception>"
\* A caller that holds no Subscription object.
NoSub      == <<>>

\* ------------------------------------------------------------ key scheme
Digits == <<"0", "1", "2", "3", "4", "5", "6", "7", "8", "9">>

\* str(arg) of an int: its decimal digits. (str of a str is the str itself.)
RECURSIVE str(_)
str(n) == IF n < 10 THEN Digits[n + 1]
          ELSE str(n \div 10) \o Digits[(n % 10) + 1]

\* ".".join(args)
RECURSIVE join(_)
join(args) == IF args = <<>> THEN ""
              ELSE IF Len(args) = 1 THEN args[1]
              ELSE args[1] \o "." \o join(Tail(args))

\* PyRPS._ns: "%s.%s" % (namespace, ".".join(args))
ns(namespace, args) == namespace \o "." \o join(args)

ns_subscriptions(queue) == ns(NAMESPACE, <<queue, "consumers">>)
ns_nextid == ns(NAMESPACE, <<"nextid">>)
\* message_id is already a string here: publish passes str(int), consume the
\* string the list pop gave back.
ns_message_OneQueue(queue, message_id) == ns(NAMESPACE, <<"a", "messages", message_id>>)
ns_message(queue, message_id) == ns(NAMESPACE, <<queue, "messages", message_id>>)
ns_queue(queue, consumer_id) == ns(NAMESPACE, <<queue, consumer_id, "messages">>)

\* The keys the callers of this model can build.
SetKeys  == {ns_subscriptions(q) : q \in Queues}
ListKeys == {ns_queue(p[1], p[2]) : p \in Pairs}
StrKeys  == {ns_message(q, str(i)) : q \in Queues, i \in 1..(MaxId + 1)}

\* --------------------------------------------------------------- state
VARIABLES
    cnt,     \* store: integer keys (INCR); an absent key counts as 0
    sets,    \* store: set keys; an absent key is the empty set
    strs,    \* store: string keys with expiry; Nil when absent or expired
    lists,   \* store: list keys; an absent key is the empty list
    th,      \* per caller: its call in progress, its locals, its result
    \* History, read by the properties only:
    pubs,      \* per minted id: the queue and body publish was called with
    appended,  \* per list key: every id pushed on it, in push order
    poplog,    \* per list key: every id popped from it, in pop order
    returned,  \* bag of <<queue, consumer_id, id>>: bodies consume returned
    missed,    \* <<queue, consumer_id, id>>: id's publish ran from its first
               \* to its last command with consumer_id unregistered
    reg,       \* per pair: "never" subscribed, subscribed "once" or "many"
               \* times since it was last unregistered, or "gone" (an
               \* unsubscribe completed and no subscribe has come since
               \* that unsubscribe began)
    forfeited, \* per list key: the ids an unsubscribe deleted with it
    fanned,    \* <<queue, consumer_id, id>>: publish pushed id for a consumer
               \* its SMEMBERS found in the queue's set
    written,   \* the message-record keys SETEX has ever written
    overlap,   \* <<i, j>>: the publish of id i was still issuing commands
               \* when id j was minted
    \* Outside the store:
    broker,    \* the PyRPS object the callers use
    built      \* keys built by PyRPS objects of several namespaces

store == <<cnt, sets, strs, lists>>
hist  == <<pubs, appended, poplog, returned, missed, reg, forfeited,
           fanned, written, overlap>>
env   == <<broker, built>>
vars  == <<cnt, sets, strs, lists, th, pubs, appended, poplog, returned,
           missed, reg, forfeited, fanned, written, overlap, broker, built>>

\* PyRPS.__init__(namespace, redis_url): the namespace is stored; the
\* connection is made for a (host, port) tuple or a host str, and for any
\* other shape no branch runs: self.redis is never assigned, nothing is
\* raised.
DefaultUrl == <<"tuple", "localhost", 6379>>
RedisUrls  == {DefaultUrl, <<"str", "localhost">>,
               <<"list", "localhost", 6379>>, <<"None">>}
NoAttr     == "<no attribute>"
StrictRedis(host, port) == <<"StrictRedis", host, port>>
PyRPS_init(namespace, redis_url) ==
    [made |-> TRUE, namespace |-> namespace, redis_url |-> redis_url,
     redis |-> IF redis_url[1] = "tuple"
               THEN StrictRedis(redis_url[2], redis_url[3])
               ELSE IF redis_url[1] = "str"
               THEN StrictRedis(redis_url[2], 6379)
               ELSE NoAttr,
     exc |-> NoExc]
NoBroker == [made |-> FALSE, namespace |-> "", redis_url |-> <<"None">>,
             redis |-> NoAttr, exc |-> NoExc]
\* self.redis is there to be called.
Connected == broker.made /\ broker.redis # NoAttr

\* A caller outside any call. The last five fields are history of the call
\* in progress. Of a publish: quiet, no subscribe/unsubscribe has overlapped
\* it; absent, the consumer ids unregistered for its queue when it began and
\* not subscribed since; after, those of them whose unsubscribe had
\* completed; snapshot, what SMEMBERS replied. Of a consume: skipped, the ids
\* it popped and discarded.
Idle == [pc |-> "idle", op |-> "none", sub |-> NoSub,
         queue |-> "", message |-> "", message_id |-> 0, consumers |-> {},
         block |-> FALSE, timeout |-> 0, popped |-> PyNone,
         ret |-> PyNone, exc |-> NoExc,
         quiet |-> TRUE, absent |-> {}, after |-> {}, snapshot |-> {},
         skipped |-> {}]

Init ==
    /\ cnt = [k \in {ns_nextid} |-> 0]
    /\ sets = [k \in SetKeys |-> {}]
    /\ strs = [k \in StrKeys |-> Nil]
    /\ lists = [k \in ListKeys |-> <<>>]
    /\ th = [t \in Threads |-> Idle]
    /\ pubs = <<>>
    /\ appended = [k \in ListKeys |-> <<>>]
    /\ poplog = [k \in ListKeys |-> <<>>]
    /\ returned = EmptyBag
    /\ missed = {}
    /\ reg = [p \in Pairs |-> "never"]
    /\ forfeited = [k \in ListKeys |-> {}]
    /\ fanned = {}
    /\ written = {}
    /\ overlap = {}
    /\ broker = PyRPS_init(NAMESPACE, DefaultUrl)
    /\ built = {}

\* ------------------------------------------------------ store commands
INCR_Stuck(c, k)  == c
INCR(c, k)        == [c EXCEPT ![k] = @ + 1]
SADD_Toggle(s, k, m) ==
    [s EXCEPT ![k] = IF m \in @ THEN @ \ {m} ELSE @ \cup {m}]
SADD(s, k, m)     == [s EXCEPT ![k] = @ \cup {m}]
SREM(s, k, m)     == [s EXCEPT ![k] = @ \ {m}]
SMEMBERS_One(s, k) == IF s[k] = {} THEN {} ELSE {CHOOSE m \in s[k] : TRUE}
SMEMBERS_All(s, k) == Consumers
SMEMBERS(s, k)    == s[k]
SETEX_Drop(s, k, v) == s
SETEX(s, k, v)    == [s EXCEPT ![k] = v]
GET_Miss(s, k)    == PyNone
GET(s, k)         == Reply(s[k])
LPUSH(l, k, v)    == [l EXCEPT ![k] = <<v>> \o @]
RPUSH(l, k, v)    == [l EXCEPT ![k] = Append(@, v)]
LPOP_Peek(l, k)   == l
LPOP(l, k)        == [l EXCEPT ![k] = Tail(@)]
DEL_Keep(l, k)    == l
DEL(l, k)         == [l EXCEPT ![k] = <<>>]

Range(f) == {f[i] : i \in DOMAIN f}
\* A publish call that has begun and not yet handed its result back.
InPublish(r) == r.op = "publish" /\ r.pc # "idle"
\* A publish call that still has store commands to issue.
Issuing(r) == r.op = "publish" /\ r.pc \in {"setex", "smembers", "rpush"}
Unsubscribing(pair) == \E u \in Threads : th[u].pc = "delete" /\ th[u].sub = pair

\* --------------------------------------------------------------- PyRPS
\* PyRPS.subscribe(queue, consumer_id): SADD, then a new Subscription.
Subscribe(t, queue, consumer_id) ==
    /\ th[t].pc = "idle"
    /\ Connected
    /\ sets' = SADD(sets, ns_subscriptions(queue), consumer_id)
    /\ th' = [u \in Threads |->
                IF u = t
                THEN [Idle EXCEPT !.sub = <<queue, consumer_id>>]
                ELSE IF InPublish(th[u])
                THEN [th[u] EXCEPT
                        !.quiet = FALSE,
                        !.absent = IF th[u].queue = queue
                                   THEN @ \ {consumer_id} ELSE @,
                        !.after = IF th[u].queue = queue
                                  THEN @ \ {consumer_id} ELSE @]
                ELSE th[u]]
    /\ reg' = [reg EXCEPT ![<<queue, consumer_id>>] =
                 IF @ \in {"never", "gone"} THEN "once" ELSE "many"]
    /\ UNCHANGED <<cnt, strs, lists, pubs, appended, poplog, returned, missed,
                   forfeited, fanned, written, overlap, env>>

\* PyRPS.publish, line 118: message_id = INCR nextid
PublishIncr(t, queue, message) ==
    /\ th[t].pc = "idle"
    /\ Connected
    /\ cnt[ns_nextid] < MaxId
    /\ cnt' = INCR(cnt, ns_nextid)
    /\ LET known == {c \in Consumers : <<queue, c>> \in Pairs} IN
       th' = [th EXCEPT ![t] =
                [Idle EXCEPT !.op = "publish", !.pc = "setex",
                             !.sub = th[t].sub,
                             !.queue = queue, !.message = message,
                             !.message_id = cnt'[ns_nextid],
                             !.quiet = \A u \in Threads : th[u].pc # "delete",
                             !.absent =
                                {c \in known :
                                   /\ c \notin sets[ns_subscriptions(queue)]
                                   /\ ~Unsubscribing(<<queue, c>>)},
                             !.after =
                                {c \in known : reg[<<queue, c>>] = "gone"}]]
    /\ pubs' = Append(pubs, [queue |-> queue, message |-> message])
    /\ overlap' = overlap \cup
                    {<<th[u].message_id, cnt'[ns_nextid]>> :
                       u \in {v \in Threads : Issuing(th[v])}}
    /\ UNCHANGED <<sets, strs, lists, appended, poplog, returned, missed,
                   reg, forfeited, fanned, written, env>>

\* line 121: SETEX <ns>.<queue>.messages.<id> ttl message
PublishSetex(t) ==
    /\ th[t].pc = "setex"
    /\ strs' = SETEX(strs, ns_message(th[t].queue, str(th[t].message_id)),
                     th[t].message)
    /\ th' = [th EXCEPT ![t].pc = "smembers"]
    /\ written' = written \cup
                    {ns_message(th[t].queue, str(th[t].message_id))}
    /\ UNCHANGED <<cnt, sets, lists, pubs, appended, poplog, returned, missed,
                   reg, forfeited, fanned, overlap, env>>

\* The end of publish: the function has no return statement.
PublishReturn(r) == [r EXCEPT !.pc = "return", !.ret = PyNone]

\* The ids whose publish ends with this step, with who missed them.
Missed(r) == {<<r.queue, c, r.message_id>> : c \in r.absent}

\* line 124: consumers = SMEMBERS; an empty snapshot ends the call.
PublishSmembers(t) ==
    /\ th[t].pc = "smembers"
    /\ LET consumers == SMEMBERS(sets, ns_subscriptions(th[t].queue)) IN
         IF consumers = {}
         THEN /\ th' = [th EXCEPT ![t] = PublishReturn(@)]
              /\ missed' = missed \cup Missed(th[t])
         ELSE /\ th' = [th EXCEPT ![t] = [@ EXCEPT !.pc = "rpush",
                                                   !.consumers = consumers,
                                                   !.snapshot = consumers]]
              /\ missed' = missed
    /\ UNCHANGED <<cnt, sets, strs, lists, pubs, appended, poplog, returned,
                   reg, forfeited, fanned, written, overlap, env>>

\* lines 127-128: one turn of the loop over the snapshot (a Python set, so
\* in any order): RPUSH the id on that consumer's list.
PublishRpush(t) ==
    /\ th[t].pc = "rpush"
    /\ \E consumer \in th[t].consumers :
         LET k == ns_queue(th[t].queue, consumer) IN
         /\ lists' = RPUSH(lists, k, str(th[t].message_id))
         /\ appended' = [appended EXCEPT ![k] = Append(@, th[t].message_id)]
         /\ fanned' = fanned \cup {<<th[t].queue, consumer, th[t].message_id>>}
         /\ IF th[t].consumers = {consumer}
            THEN /\ th' = [th EXCEPT ![t] =
                             PublishReturn([@ EXCEPT !.consumers = {}])]
                 /\ missed' = missed \cup Missed(th[t])
            ELSE /\ th' = [th EXCEPT ![t].consumers = @ \ {consumer}]
                 /\ missed' = missed
    /\ UNCHANGED <<cnt, sets, strs, pubs, poplog, returned, reg, forfeited,
                   written, overlap, env>>

\* -------------------------------------------------------- Subscription
HandleKey(r) == ns_queue(r.sub[1], r.sub[2])

\* The id a decimal string of a delivery list stands for.
IdOf(s) == CHOOSE i \in 1..(MaxId + 1) : str(i) = s

\* Subscription.consume(block, timeout) is called on a handle.
ConsumeCall(t, block, timeout) ==
    /\ th[t].pc = "idle"
    /\ th[t].sub # NoSub
    /\ th' = [th EXCEPT ![t] = [Idle EXCEPT !.op = "consume", !.pc = "pop",
                                            !.sub = th[t].sub,
                                            !.block = block,
                                            !.timeout = timeout]]
    /\ UNCHANGED <<store, hist, env>>

\* How consume ends: with a value, or with an exception.
ConsumeReturn(r, value) == [r EXCEPT !.pc = "return", !.ret = value]
ConsumeRaise(r, e)      == [r EXCEPT !.pc = "raise", !.exc = e]

\* line 184, "while True": the loop goes round again in either mode.
LoopIfBlocking(block) == block
LoopAgain(block) == TRUE

\* line 204, "if message is not None"
Found_Always(message) == TRUE
Found(message) == message # PyNone

\* lines 186-198: BLPOP (waits while the list is empty) or LPOP (None on an
\* empty list, and then consume returns None).
ConsumePop(t) ==
    /\ th[t].pc = "pop"
    /\ LET k == HandleKey(th[t]) IN
       IF lists[k] # <<>>
       THEN /\ lists' = LPOP(lists, k)
            /\ th' = [th EXCEPT ![t] = [@ EXCEPT !.pc = "get",
                                           !.popped = PyStr(Head(lists[k]))]]
            /\ poplog' = [poplog EXCEPT ![k] = Append(@, IdOf(Head(lists[k])))]
       ELSE /\ ~th[t].block
            /\ lists' = lists
            /\ th' = [th EXCEPT ![t] =
                        ConsumeReturn([@ EXCEPT !.popped = PyNone], PyNone)]
            /\ poplog' = poplog
    /\ UNCHANGED <<cnt, sets, strs, pubs, appended, returned, missed, reg,
                   forfeited, fanned, written, overlap, env>>

\* lines 188-191: BLPOP with timeout > 0 on a list that stays empty replies
\* nil; message_id[1] on None raises TypeError out of consume.
ConsumeTimeout(t) ==
    /\ th[t].pc = "pop"
    /\ th[t].block
    /\ th[t].timeout > 0
    /\ lists[HandleKey(th[t])] = <<>>
    /\ th' = [th EXCEPT ![t] =
                ConsumeRaise([@ EXCEPT !.popped = PyNone], TypeError)]
    /\ UNCHANGED <<store, hist, env>>

\* lines 201-205: GET the record; return it if present, else loop.
ConsumeGet(t) ==
    /\ th[t].pc = "get"
    /\ LET id      == th[t].popped[2]
           message == GET(strs, ns_message(th[t].sub[1], id)) IN
         IF Found(message)
         THEN /\ th' = [th EXCEPT ![t] = ConsumeReturn(@, message)]
              /\ returned' = returned (+) SetToBag(
                                {<<th[t].sub[1], th[t].sub[2], IdOf(id)>>})
         ELSE /\ th' = [th EXCEPT ![t] =
                          IF LoopAgain(th[t].block)
                          THEN [@ EXCEPT !.pc = "pop",
                                         !.skipped = @ \cup {IdOf(id)}]
                          ELSE ConsumeReturn(
                                 [@ EXCEPT !.skipped = @ \cup {IdOf(id)}],
                                 message)]
              /\ returned' = returned
    /\ UNCHANGED <<store, pubs, appended, poplog, missed, reg, forfeited,
                   fanned, written, overlap, env>>

\* Subscription.unsubscribe, line 216: SREM
UnsubscribeSrem(t) ==
    /\ th[t].pc = "idle"
    /\ th[t].sub # NoSub
    /\ sets' = SREM(sets, ns_subscriptions(th[t].sub[1]), th[t].sub[2])
    /\ th' = [u \in Threads |->
                IF u = t
                THEN [Idle EXCEPT !.op = "unsubscribe", !.pc = "delete",
                                  !.sub = th[t].sub]
                ELSE IF InPublish(th[u])
                THEN [th[u] EXCEPT !.quiet = FALSE]
                ELSE th[u]]
    /\ UNCHANGED <<cnt, strs, lists, hist, env>>

\* line 219: DEL of the delivery list
UnsubscribeDelete(t) ==
    /\ th[t].pc = "delete"
    /\ lists' = DEL(lists, HandleKey(th[t]))
    /\ th' = [th EXCEPT ![t] = [Idle EXCEPT !.sub = th[t].sub]]
    /\ forfeited' = [forfeited EXCEPT ![HandleKey(th[t])] =
                       @ \cup {IdOf(s) : s \in Range(lists[HandleKey(th[t])])}]
    /\ reg' = [reg EXCEPT ![th[t].sub] =
                 IF th[t].sub[2] \in sets[ns_subscriptions(th[t].sub[1])]
                 THEN @ ELSE "gone"]
    /\ UNCHANGED <<cnt, sets, strs, pubs, appended, poplog, returned, missed,
                   fanned, written, overlap, env>>

\* The caller takes the result of publish or consume (a value or an
\* exception) and is free for its next call.
Return(t) ==
    /\ th[t].pc \in {"return", "raise"}
    /\ th' = [th EXCEPT ![t] = [Idle EXCEPT !.sub = th[t].sub]]
    /\ UNCHANGED <<store, hist, env>>

\* ---------------------------------------------------------------- store
\* The store purges a message record when its TTL has elapsed.
Expire(k) ==
    /\ strs[k] # Nil
    /\ strs' = SETEX(strs, k, Nil)
    /\ UNCHANGED <<cnt, sets, lists, th, hist, env>>

\* --------------------------------------------------------- specifications
\* Fan-out: one publisher, and one caller that subscribes either consumer
\* of queue "a", polls and unsubscribes. The publisher alternates its two
\* bodies, so that messages minted one after the other differ.
FanPairs == {<<"a", "c">>, <<"a", "b.c">>}
Turn(n)  == IF n % 2 = 0 THEN "x" ELSE "y"

NextFan ==
    \/ \E p \in FanPairs : Subscribe("h1", p[1], p[2])
    \/ PublishIncr("p1", "a", Turn(cnt[ns_nextid]))
    \/ PublishSetex("p1")
    \/ PublishSmembers("p1")
    \/ PublishRpush("p1")
    \/ ConsumeCall("h1", FALSE, 0)
    \/ ConsumePop("h1")
    \/ ConsumeGet("h1")
    \/ UnsubscribeSrem("h1")
    \/ UnsubscribeDelete("h1")
    \/ \E t \in {"p1", "h1"} : Return(t)
    \/ \E k \in StrKeys : Expire(k)

Spec == Init /\ [][NextFan]_vars

\* Race: two publishers, each with its own body, against one caller that
\* subscribes, polls and unsubscribes one consumer.
NextRace ==
    \/ Subscribe("h1", "a", "c")
    \/ \E t \in Publishers : PublishIncr(t, "a", Payload[t])
    \/ \E t \in Publishers : PublishSetex(t)
    \/ \E t \in Publishers : PublishSmembers(t)
    \/ \E t \in Publishers : PublishRpush(t)
    \/ ConsumeCall("h1", FALSE, 0)
    \/ ConsumePop("h1")
    \/ ConsumeGet("h1")
    \/ UnsubscribeSrem("h1")
    \/ UnsubscribeDelete("h1")
    \/ \E t \in Publishers \cup {"h1"} : Return(t)
    \/ \E k \in StrKeys : Expire(k)

SpecRace == Init /\ [][NextRace]_vars

\* Competing consumers: one publisher feeds two callers that share one
\* consumer identity and consume in every mode.
NextConsume ==
    \/ \E t \in Subscribers : Subscribe(t, "a", "c")
    \/ \E m \in Messages : PublishIncr("p1", "a", m)
    \/ PublishSetex("p1")
    \/ PublishSmembers("p1")
    \/ PublishRpush("p1")
    \/ \E t \in Subscribers, a \in ConsumeArgs : ConsumeCall(t, a[1], a[2])
    \/ \E t \in Subscribers : ConsumePop(t)
    \/ \E t \in Subscribers : ConsumeTimeout(t)
    \/ \E t \in Subscribers : ConsumeGet(t)
    \/ \E t \in Subscribers : UnsubscribeSrem(t)
    \/ \E t \in Subscribers : UnsubscribeDelete(t)
    \/ \E t \in Subscribers \cup {"p1"} : Return(t)
    \/ \E k \in StrKeys : Expire(k)

SpecConsume == Init /\ [][NextConsume]_vars

\* Aliasing: one publisher over both queues, and one caller for the two
\* pairs whose delivery lists are one key, "shop.a.b.c.messages".
AliasPairs == {<<"a", "b.c">>, <<"a.b", "c">>}

NextAlias ==
    \/ \E p \in AliasPairs : Subscribe("h1", p[1], p[2])
    \/ \E q \in Queues : PublishIncr("p1", q, Turn(cnt[ns_nextid]))
    \/ PublishSetex("p1")
    \/ PublishSmembers("p1")
    \/ PublishRpush("p1")
    \/ ConsumeCall("h1", FALSE, 0)
    \/ ConsumePop("h1")
    \/ ConsumeGet("h1")
    \/ UnsubscribeSrem("h1")
    \/ UnsubscribeDelete("h1")
    \/ \E t \in {"p1", "h1"} : Return(t)
    \/ \E k \in StrKeys : Expire(k)

SpecAlias == Init /\ [][NextAlias]_vars

\* Construction: the PyRPS object is built from any redis_url shape; then
\* one publisher and one subscriber call it.
AttributeError == "AttributeError"

InitCtor ==
    /\ cnt = [k \in {ns_nextid} |-> 0]
    /\ sets = [k \in SetKeys |-> {}]
    /\ strs = [k \in StrKeys |-> Nil]
    /\ lists = [k \in ListKeys |-> <<>>]
    /\ th = [t \in Threads |-> Idle]
    /\ pubs = <<>>
    /\ appended = [k \in ListKeys |-> <<>>]
    /\ poplog = [k \in ListKeys |-> <<>>]
    /\ returned = EmptyBag
    /\ missed = {}
    /\ reg = [p \in Pairs |-> "never"]
    /\ forfeited = [k \in ListKeys |-> {}]
    /\ fanned = {}
    /\ written = {}
    /\ overlap = {}
    /\ broker = NoBroker
    /\ built = {}

\* PyRPS(NAMESPACE, redis_url)
Construct(redis_url) ==
    /\ ~broker.made
    /\ broker' = PyRPS_init(NAMESPACE, redis_url)
    /\ UNCHANGED <<store, th, hist, built>>

\* subscribe, line 104, on an object without self.redis: the attribute
\* lookup raises AttributeError.
SubscribeNoRedis(t) ==
    /\ th[t].pc = "idle"
    /\ broker.made /\ broker.redis = NoAttr
    /\ th' = [th EXCEPT ![t] = [Idle EXCEPT !.op = "subscribe", !.pc = "raise",
                                            !.exc = AttributeError]]
    /\ UNCHANGED <<store, hist, env>>

\* publish, line 118, on an object without self.redis.
PublishNoRedis(t) ==
    /\ th[t].pc = "idle"
    /\ broker.made /\ broker.redis = NoAttr
    /\ th' = [th EXCEPT ![t] = [Idle EXCEPT !.op = "publish", !.pc = "raise",
                                            !.exc = AttributeError]]
    /\ UNCHANGED <<store, hist, env>>

NextCtor ==
    \/ \E u \in RedisUrls : Construct(u)
    \/ SubscribeNoRedis("h1")
    \/ PublishNoRedis("p1")
    \/ Subscribe("h1", "a", "c")
    \/ PublishIncr("p1", "a", Turn(cnt[ns_nextid]))
    \/ PublishSetex("p1")
    \/ PublishSmembers("p1")
    \/ PublishRpush("p1")
    \/ ConsumeCall("h1", FALSE, 0)
    \/ ConsumePop("h1")
    \/ ConsumeGet("h1")
    \/ \E t \in {"p1", "h1"} : Return(t)

SpecCtor == InitCtor /\ [][NextCtor]_vars

\* Key scheme: PyRPS objects of two namespaces on one store build keys.
Namespaces == {"shop", "shop.a"}
KeyQueues  == {"b", "a.b"}
\* What a key is built for: the counter, a queue's consumer set, a message
\* record, a delivery list.
KeyUses ==
    {<<"nextid">>}
      \cup {<<"consumers", q>> : q \in KeyQueues}
      \cup {<<"message", q, i>> : q \in KeyQueues, i \in 1..MaxId}
      \cup {<<"queue", q, c>> : q \in KeyQueues, c \in Consumers}

\* _ns_nextid, _ns_subscriptions, _ns_message, _ns_queue of the object
\* whose self.namespace is namespace.
PyRPS_key(namespace, use) ==
    CASE use[1] = "nextid"    -> ns(namespace, <<"nextid">>)
      [] use[1] = "consumers" -> ns(namespace, <<use[2], "consumers">>)
      [] use[1] = "message"   -> ns(namespace,
                                    <<use[2], "messages", str(use[3])>>)
      [] use[1] = "queue"     -> ns(namespace, <<use[2], use[3], "messages">>)

BuildKey(namespace, use) ==
    /\ Cardinality(built) < MaxBuilt
    /\ built' = built \cup {[namespace |-> namespace, use |-> use,
                             key |-> PyRPS_key(namespace, use)]}
    /\ UNCHANGED <<store, th, hist, broker>>

NextKeys == \E n \in Namespaces, u \in KeyUses : BuildKey(n, u)

SpecKeys == Init /\ [][NextKeys]_vars

\* Waiting: one publisher, and one caller whose every consume blocks
\* without timeout. The store answers a BLPOP on a list that holds an id,
\* and a caller that has popped goes on to its GET: weak fairness of both.
NextLive ==
    \/ Subscribe("h1", "a", "c")
    \/ PublishIncr("p1", "a", Turn(cnt[ns_nextid]))
    \/ PublishSetex("p1")
    \/ PublishSmembers("p1")
    \/ PublishRpush("p1")
    \/ ConsumeCall("h1", TRUE, 0)
    \/ ConsumePop("h1")
    \/ ConsumeGet("h1")
    \/ UnsubscribeSrem("h1")
    \/ UnsubscribeDelete("h1")
    \/ \E t \in {"p1", "h1"} : Return(t)
    \/ \E k \in StrKeys : Expire(k)

SpecLive ==
    /\ Init /\ [][NextLive]_vars
    /\ WF_vars(ConsumePop("h1"))
    /\ WF_vars(ConsumeGet("h1"))

\* ------------------------------------------------------------ properties
Count(x, seq) == Cardinality({i \in DOMAIN seq : seq[i] = x})
Ids(l)        == [i \in DOMAIN l |-> IdOf(l[i])]
IsSuffix(s, t) ==
    /\ Len(s) <= Len(t)
    /\ \A i \in 1..Len(s) : s[i] = t[Len(t) - Len(s) + i]
\* s is t with some elements left out: the order-preserving embeddings.
IsSubseq(s, t) ==
    \E f \in [DOMAIN s -> DOMAIN t] :
        /\ \A i \in DOMAIN s : s[i] = t[f[i]]
        /\ \A i, j \in DOMAIN s : i < j => f[i] < f[j]

\* A publish whose commands are all done, before its caller goes on.
Published(t) == th[t].op = "publish" /\ th[t].pc = "return"
\* A consume that has ended with a value, before its caller goes on.
Consumed(t)  == th[t].op = "consume" /\ th[t].pc = "return"
PoppedId(t)  == IdOf(th[t].popped[2])
\* What consume hands back is the body publish was given for the id it
\* popped, and that message was published to the handle's queue.
ReturnsPopped(t) ==
    /\ th[t].popped # PyNone
    /\ th[t].ret = PyStr(pubs[PoppedId(t)].message)
    /\ pubs[PoppedId(t)].queue = th[t].sub[1]

\* The step with which a publish completes: its last store command.
Completes(t) ==
    th[t].op = "publish" /\ th[t].pc # "return" /\ th'[t].pc = "return"

\* C1, as the claim has it: at the step that completes a publish no
\* subscribe or unsubscribe has overlapped, the id is the last element of
\* the delivery list of every member of the queue's consumer set; and a
\* consume that returns a body returns the body of the id it popped.
C1_TailAtCompletion ==
    [][/\ \A t \in Threads :
            Completes(t) /\ th[t].quiet =>
              \A c \in sets'[ns_subscriptions(th[t].queue)] :
                LET l == lists'[ns_queue(th[t].queue, c)] IN
                  l # <<>> /\ l[Len(l)] = str(th[t].message_id)
       /\ \A t \in Threads :
            (Consumed(t) /\ th[t].ret # PyNone => ReturnsPopped(t))']_vars

\* C1, amended: a publish that no subscribe or unsubscribe overlapped has
\* pushed its id exactly once on the delivery list of every member of the
\* queue's consumer set; every push lands behind what the list holds (a
\* list is always the tail end of its push history); and a consume that
\* returns a body returns exactly the body of the id it popped.
C1_FanOut ==
    /\ \A t \in Threads :
         Published(t) /\ th[t].quiet =>
           \A c \in sets[ns_subscriptions(th[t].queue)] :
             Count(th[t].message_id, appended[ns_queue(th[t].queue, c)]) = 1
    /\ \A k \in ListKeys : IsSuffix(Ids(lists[k]), appended[k])
    /\ \A t \in Threads : Consumed(t) /\ th[t].ret # PyNone => ReturnsPopped(t)

\* Both consumers are registered, an undisturbed publish is complete, and
\* a consume on one of them has returned its body.
C1_Witness ==
    /\ Published("p1") /\ th["p1"].quiet
    /\ sets[ns_subscriptions("a")] = {"c", "b.c"}
    /\ Consumed("h1")
    /\ th["h1"].popped = PyStr(str(th["p1"].message_id))
    /\ th["h1"].ret = PyStr(th["p1"].message)

C3_PublishReturnsId ==
    /\ \A t \in Threads : Published(t) => th[t].ret = PyInt(th[t].message_id)
    /\ Len(pubs) = cnt[ns_nextid]
    /\ \A t \in Threads : InPublish(th[t]) => th[t].message_id \in 1..Len(pubs)
    /\ \A t, u \in Threads :
         InPublish(th[t]) /\ InPublish(th[u]) /\ t # u =>
           th[t].message_id # th[u].message_id

\* An id the unsubscribe deleted with the list is in the list no more, and
\* is never popped or returned again.
ForfeitedGone ==
    \A p \in Pairs :
      \A id \in forfeited[ns_queue(p[1], p[2])] :
        /\ id \notin Range(Ids(lists[ns_queue(p[1], p[2])]))
        /\ id \notin Range(poplog[ns_queue(p[1], p[2])])
        /\ CopiesIn(<<p[1], p[2], id>>, returned) = 0

C5_IdempotentSubscribe ==
    /\ \A p \in Pairs :
         reg[p] \in {"once", "many"} /\ ~Unsubscribing(p) =>
           /\ p[2] \in sets[ns_subscriptions(p[1])]
           /\ Cardinality({m \in sets[ns_subscriptions(p[1])] : m = p[2]}) = 1
    /\ \A k \in ListKeys : \A id \in Range(appended[k]) :
         Count(id, appended[k]) = 1
    /\ \A t \in Threads :
         Published(t) =>
           \A c \in th[t].snapshot :
             Count(th[t].message_id, appended[ns_queue(th[t].queue, c)]) = 1

\* The consumer was subscribed more than once, and a publish that found it
\* in the set is complete.
C5_Witness ==
    /\ reg[<<"a", "c">>] = "many"
    /\ Published("p1")
    /\ "c" \in th["p1"].snapshot
    /\ Count(th["p1"].message_id, appended[ns_queue("a", "c")]) = 1

\* Every id a consume in progress has discarded has no record: it was
\* popped after its record had expired, and the record never comes back.
SkippedAreExpired(t) ==
    \A id \in th[t].skipped : strs[ns_message(th[t].sub[1], str(id))] = Nil

\* C6: a blocking consume discards only ids whose record is absent, goes
\* on popping after each, and when it returns, returns the body of the id
\* it popped last, whose record was live when it was read: never None and
\* never anything standing for an expired record.
C6_BlockingSkipsExpired ==
    \A t \in Threads :
      th[t].op = "consume" /\ th[t].block =>
        /\ SkippedAreExpired(t)
        /\ th[t].pc = "return" =>
             /\ ReturnsPopped(t)
             /\ PoppedId(t) \notin th[t].skipped

\* A blocking consume has discarded an expired id and returned the body of
\* a later one.
C6_Witness ==
    \E t \in Subscribers :
      /\ Consumed(t) /\ th[t].block
      /\ th[t].skipped # {}
      /\ ReturnsPopped(t)

\* C7, as the claim has it: a non-blocking consume that has popped an id
\* whose record is absent returns None, having popped that one id only.
C7_SinglePop ==
    \A t \in Threads :
      Consumed(t) /\ ~th[t].block /\ th[t].skipped # {} =>
        /\ th[t].ret = PyNone
        /\ Cardinality(th[t].skipped) = 1

\* C7, amended: a non-blocking consume discards ids whose record is absent
\* and pops again, like a blocking one; it returns None only when a pop
\* found the list empty, and otherwise the body of the id it popped last.
C7_NonBlockingRetries ==
    \A t \in Threads :
      th[t].op = "consume" /\ ~th[t].block =>
        /\ SkippedAreExpired(t)
        /\ th[t].pc = "return" =>
             IF th[t].popped = PyNone
             THEN th[t].ret = PyNone
             ELSE ReturnsPopped(t) /\ PoppedId(t) \notin th[t].skipped

\* A non-blocking consume has discarded an expired id and returned the
\* body of a later one.
C7_Witness ==
    \E t \in Subscribers :
      /\ Consumed(t) /\ ~th[t].block
      /\ th[t].skipped # {}
      /\ ReturnsPopped(t)

\* C8: a blocking consume with a timeout whose wait ended with the list
\* still empty returns None, raises nothing, and leaves the store as it
\* was.
C8_TimeoutReturnsNone ==
    \A t \in Threads :
      /\ th[t].op = "consume" /\ th[t].block /\ th[t].timeout > 0
      /\ th[t].pc \in {"return", "raise"}
      /\ th[t].popped = PyNone
      => /\ th[t].pc = "return"
         /\ th[t].ret = PyNone
         /\ th[t].exc = NoExc

\* C9: with several handles on one consumer identity, no id is popped
\* twice from the identity's list and no id is returned by two consume
\* calls; every body a consume returns is counted for its id; and a
\* non-blocking consume returns None only after finding the list empty.
C9_CompetingConsumers ==
    /\ \A x \in BagToSet(returned) : CopiesIn(x, returned) = 1
    /\ \A k \in ListKeys : \A id \in Range(poplog[k]) : Count(id, poplog[k]) = 1
    /\ \A t \in Threads :
         Consumed(t) /\ th[t].ret # PyNone =>
           /\ th[t].popped # PyNone
           /\ BagIn(<<th[t].sub[1], th[t].sub[2], PoppedId(t)>>, returned)
    /\ \A t, u \in Threads :
         /\ t # u /\ Consumed(t) /\ Consumed(u)
         /\ th[t].sub = th[u].sub
         /\ th[t].ret # PyNone /\ th[u].ret # PyNone
         => th[t].popped # th[u].popped

\* Two handles on one identity have each ended a consume while a single
\* message was ever published: one holds its body, the other None.
C9_Witness ==
    /\ cnt[ns_nextid] = 1
    /\ th["h1"].sub = th["h2"].sub
    /\ Consumed("h1") /\ Consumed("h2")
    /\ th["h1"].ret = PyStr(pubs[1].message)
    /\ ~th["h2"].block /\ th["h2"].ret = PyNone

\* C10: for every delivery list, the ids popped from it, in pop order, are
\* a subsequence of the ids pushed on it, in push order, and so are the
\* ids whose bodies were returned; what the list holds is always the tail
\* end of what was pushed (pushes go to the tail, pops take the head).
C10_FifoPerIdentity ==
    \A p \in Pairs :
      LET k == ns_queue(p[1], p[2])
          resolved == SelectSeq(poplog[k],
                        LAMBDA id : BagIn(<<p[1], p[2], id>>, returned))
      IN /\ IsSubseq(poplog[k], appended[k])
         /\ IsSubseq(resolved, appended[k])
         /\ IsSuffix(Ids(lists[k]), appended[k])

\* Two racing publishers pushed their ids on one list in the reverse of
\* minting order, and both were popped in push order.
C10_Witness ==
    /\ appended[ns_queue("a", "c")] = <<2, 1>>
    /\ poplog[ns_queue("a", "c")] = <<2, 1>>
    /\ BagIn(<<"a", "c", 2>>, returned)
    /\ BagIn(<<"a", "c", 1>>, returned)

\* C11: whenever a consume on a handle for (Q, C) returns a body, it is
\* exactly the body publish was given for the id popped, that message was
\* published to Q itself, and its publish pushed the id for C because its
\* SMEMBERS found C in Q's consumer set. This holds also where the delivery
\* lists of two pairs are one key.
C11_Provenance ==
    /\ \A t \in Threads :
         Consumed(t) /\ th[t].ret # PyNone =>
           /\ ReturnsPopped(t)
           /\ <<th[t].sub[1], th[t].sub[2], PoppedId(t)>> \in fanned
    /\ \A x \in BagToSet(returned) :
         /\ x \in fanned
         /\ pubs[x[3]].queue = x[1]

\* A handle for ("a.b", "c") popped an id that was published to queue "a"
\* for consumer "b.c", discarded it, and returned a body of queue "a.b".
C11_Witness ==
    /\ Consumed("h1")
    /\ th["h1"].sub = <<"a.b", "c">>
    /\ th["h1"].ret # PyNone
    /\ \E id \in th["h1"].skipped : pubs[id].queue = "a"

\* C12: every publish adds exactly one to the counter and takes the new
\* value as its id, then writes its record under (queue, id), changing no
\* set and no list in either step; a publish whose SMEMBERS finds the
\* queue's consumer set empty ends there without an exception and without
\* changing the store, and it has pushed its id on no list.
C12_NoSubscriberPublish ==
    [][/\ \A t \in Threads :
            /\ th[t].pc = "idle" /\ th'[t].pc = "setex" =>
                 /\ cnt'[ns_nextid] = cnt[ns_nextid] + 1
                 /\ th'[t].message_id = cnt'[ns_nextid]
                 /\ UNCHANGED <<sets, strs, lists>>
            /\ th[t].pc = "setex" /\ th'[t].pc = "smembers" =>
                 /\ strs'[ns_message(th[t].queue, str(th[t].message_id))]
                      = th[t].message
                 /\ UNCHANGED <<cnt, sets, lists>>
            /\ /\ th[t].pc = "smembers" /\ th'[t].pc # "smembers"
               /\ sets[ns_subscriptions(th[t].queue)] = {}
               => /\ th'[t].pc = "return"
                  /\ th'[t].exc = NoExc
                  /\ UNCHANGED <<cnt, sets, strs, lists>>
       /\ \A t \in Threads :
            (Published(t) /\ th[t].snapshot = {} =>
               /\ ns_message(th[t].queue, str(th[t].message_id)) \in written
               /\ \A k \in ListKeys :
                    th[t].message_id \notin Range(appended[k]))']_vars

\* A publish found no consumer and is complete: the counter stands at its
\* id, its record is in the store, every list and every set is empty.
C12_Witness ==
    \E t \in Publishers :
      /\ Published(t) /\ th[t].snapshot = {}
      /\ cnt[ns_nextid] = th[t].message_id
      /\ strs[ns_message(th[t].queue, str(th[t].message_id))] = th[t].message
      /\ \A k \in ListKeys : lists[k] = <<>>
      /\ \A k \in SetKeys : sets[k] = {}

\* C13: constructing the object with a redis_url that is neither a tuple
\* nor a str ends in an error; an object that exists has its connection,
\* and no subscribe or publish is ever called on one that lacks it.
C13_ConstructionFailsFast ==
    /\ broker.made /\ broker.redis_url[1] \notin {"tuple", "str"} =>
         broker.exc # NoExc
    /\ broker.made /\ broker.exc = NoExc => broker.redis # NoAttr
    /\ \A t \in Threads : th[t].exc # AttributeError

\* C14: no key an object of one namespace builds (counter, consumer set,
\* message record, delivery list) equals a key an object of another
\* namespace builds.
C14_NamespaceIsolation ==
    \A x, y \in built : x.namespace # y.namespace => x.key # y.key

\* C15: under racing publishers the counter never decreases; it changes
\* only when a publish begins, by exactly one, and that publish takes the
\* new value as its id; so the n-th publish has id n (the first has id 1),
\* and no two publish calls hold the same id.
C15_CounterInvariant ==
    [][/\ cnt'[ns_nextid] >= cnt[ns_nextid]
       /\ \A t \in Threads :
            th[t].pc = "idle" /\ th'[t].pc = "setex" =>
              /\ cnt'[ns_nextid] = cnt[ns_nextid] + 1
              /\ th'[t].message_id = cnt'[ns_nextid]
              /\ th'[t].message_id = Len(pubs')
       /\ cnt'[ns_nextid] # cnt[ns_nextid] =>
            \E t \in Threads : th[t].pc = "idle" /\ th'[t].pc = "setex"
       /\ (/\ Len(pubs) = cnt[ns_nextid]
           /\ \A t \in Threads :
                InPublish(th[t]) => th[t].message_id \in 1..cnt[ns_nextid]
           /\ \A t, u \in Threads :
                InPublish(th[t]) /\ InPublish(th[u]) /\ t # u =>
                  th[t].message_id # th[u].message_id)']_vars

\* Two publishers are in their calls at once, holding ids 1 and 2.
C15_Witness ==
    /\ Issuing(th["p1"]) /\ Issuing(th["p2"])
    /\ {th["p1"].message_id, th["p2"].message_id} = {1, 2}
    /\ cnt[ns_nextid] = 2

\* The caller is suspended in a blocking consume without timeout.
Suspended(t) ==
    /\ th[t].op = "consume" /\ th[t].pc = "pop"
    /\ th[t].block /\ th[t].timeout = 0

\* C16: a blocking consume without timeout never ends with None or with
\* an exception; and once its list holds, at the head, an id whose record
\* is live, the suspended consume eventually returns a body, unless that
\* record expires first.
C16_BlockingLiveness ==
    /\ [](\A t \in Threads :
            /\ th[t].op = "consume" /\ th[t].block /\ th[t].timeout = 0
            /\ th[t].pc \in {"return", "raise"}
            => th[t].pc = "return" /\ ReturnsPopped(t))
    /\ \A id \in 1..MaxId :
         (/\ Suspended("h1")
          /\ lists[HandleKey(th["h1"])] # <<>>
          /\ Head(lists[HandleKey(th["h1"])]) = str(id)
          /\ strs[ns_message(th["h1"].sub[1], str(id))] # Nil)
         ~> (\/ Consumed("h1") /\ th["h1"].ret # PyNone
             \/ strs[ns_message("a", str(id))] = Nil)

\* The publisher has just completed, and the blocking consume has
\* returned the body of that very message without discarding any id.
C16_Witness ==
    /\ Published("p1")
    /\ Consumed("h1") /\ th["h1"].block /\ th["h1"].timeout = 0
    /\ th["h1"].skipped = {}
    /\ th["h1"].popped = PyStr(str(th["p1"].message_id))
    /\ th["h1"].ret = PyStr(th["p1"].message)

\* C17: a consumer that is not in its queue's set, and has no unsubscribe
\* between its SREM and its DEL, has an empty delivery list.
C17_UnregisteredHasNoList ==
    \A p \in Pairs :
      /\ p[2] \notin sets[ns_subscriptions(p[1])]
      /\ ~Unsubscribing(p)
      => lists[ns_queue(p[1], p[2])] = <<>>

\* C18, as the claim has it: the ids in every delivery list increase
\* strictly from head to tail, and so do the ids popped from it.
C18_ListsIncreaseById ==
    \A k \in ListKeys :
      /\ \A i, j \in DOMAIN lists[k] :
           i < j => IdOf(lists[k][i]) < IdOf(lists[k][j])
      /\ \A i, j \in DOMAIN poplog[k] :
           i < j => poplog[k][i] < poplog[k][j]

\* C18, amended: the ids in a delivery list are distinct and stand in the
\* order in which they were pushed; a higher id stands before a lower one,
\* or is popped before it, only if the publish of the lower id was still
\* issuing commands when the higher id was minted.
C18_ListsInPushOrder ==
    \A k \in ListKeys :
      /\ \A i, j \in DOMAIN lists[k] :
           i < j =>
             /\ lists[k][i] # lists[k][j]
             /\ IdOf(lists[k][i]) > IdOf(lists[k][j]) =>
                  <<IdOf(lists[k][j]), IdOf(lists[k][i])>> \in overlap
      /\ IsSuffix(Ids(lists[k]), appended[k])
      /\ \A i, j \in DOMAIN poplog[k] :
           i < j /\ poplog[k][i] > poplog[k][j] =>
             <<poplog[k][j], poplog[k][i]>> \in overlap

\* A list holds id 2 ahead of id 1.
C18_Witness ==
    lists[ns_queue("a", "c")] = <<"2", "1">>

\* Every id in a delivery list has been minted, and the record of its
\* message was written before it was pushed.
WrittenBeforePushed ==
    \A k \in ListKeys : \A i \in DOMAIN lists[k] :
      LET id == IdOf(lists[k][i]) IN
        /\ id <= cnt[ns_nextid]
        /\ ns_message(pubs[id].queue, str(id)) \in written

\* C19: every id in a delivery list is at most the counter and had its
\* record written before it was pushed; and whenever a consume finds no
\* record for an id it popped, that record had been written (so it is
\* absent because it expired).
C19_PublishStepOrder ==
    /\ WrittenBeforePushed
    /\ \A t \in Threads :
         th[t].op = "consume" =>
           \A id \in th[t].skipped :
             ns_message(th[t].sub[1], str(id)) \in written

====
